---------------------------- MODULE Spec2Model ----------------------------
(***************************************************************************)
(* Competition-team membership and quiz scoring of the ComES backend        *)
(* (src/src/controllers/competitionTeam.controller.ts with the              *)
(* CompetitionTeam model, src/unnamed/part_004; and                         *)
(* src/src/controllers/quiz.controller.ts with the Quiz model,              *)
(* src/unnamed/part_003, and the QuizAttempt model).                        *)
(*                                                                           *)
(* The database holds one collection of team documents.  A request handler  *)
(* reads a document (findById / findOne), changes its in-memory copy and    *)
(* writes it back with save().  save() sends only the modified paths: a     *)
(* change below an array index (members.i.status) is guarded by the         *)
(* document version __v it was loaded with, a replaced array (members = a   *)
(* filtered copy) is guarded by __v and increments it, and a change of a    *)
(* top-level field (status) is guarded by nothing.                          *)
(*                                                                           *)
(* Spec        runs every handler as one step (sequential requests).        *)
(* SpecCreate  runs createTeam in two steps, its reads and its insert, one  *)
(*             request in flight per student.                               *)
(* SpecRace    runs respondToInvitation in two steps, its read and its      *)
(*             save(), on a team that was just created.                     *)
(* SpecQuiz    submits attempts to a stored quiz; the scores are computed   *)
(*             in the binary64 arithmetic of the handler.                   *)
(* SpecAdmin   runs the quiz handlers (reads, update, visibility, delete,   *)
(*             submit) as one step each on a stored quiz.                   *)
(* SpecQuizRace runs submitQuizAttempt and deleteQuiz in two steps each,    *)
(*             one request per client.                                      *)
(***************************************************************************)
EXTENDS Integers, Sequences, FiniteSets, TLC

VARIABLES teams, req, lastResult, quizzes, attempts, calls

vars == <<teams, req, lastResult, quizzes, attempts, calls>>

-----------------------------------------------------------------------------
(* Bounds of the model *)

\* number of team documents the collection may hold
MaxTeams == 2

\* longest memberIds list of a createTeam request
MaxInvitees == 2

\* number of member entries the collection may hold, all teams together
MaxEntries == 2

-----------------------------------------------------------------------------
(* The student directory (Student collection) *)

\* registered students: every authenticated requester is one of them
Directory == {"s1", "s2", "s3"}

\* a well-formed id that no student document has
GhostId == "s9"

StudentIds == Directory \cup {GhostId}

\* Student.findById
StudentFindById(id) ==
    IF id \in Directory
    THEN [found |-> TRUE, _id |-> id, name |-> <<"name", id>>]
    ELSE [found |-> FALSE, _id |-> id, name |-> <<>>]

-----------------------------------------------------------------------------
(* Team names and the route's validation of them *)

\* shortest and longest team name the create route accepts
NameMinLength == 2
NameMaxLength == 100

\* request bodies' name field: sequences of characters, " " is whitespace
RawNames ==
    { <<"a", "b">>, <<" ", "a", "b">>, <<"c", "d", " ">>, <<" ", "a">> }

RECURSIVE TrimLeft(_)
TrimLeft(s) ==
    IF s # <<>> /\ Head(s) = " " THEN TrimLeft(Tail(s)) ELSE s

RECURSIVE TrimRight(_)
TrimRight(s) ==
    IF s # <<>> /\ s[Len(s)] = " "
    THEN TrimRight(SubSeq(s, 1, Len(s) - 1))
    ELSE s

\* body('name').trim() of the route, and trim: true of the schema
Trim(s) == TrimRight(TrimLeft(s))

\* teamValidation.create: the trimmed name has 2..100 characters
ValidTeamName(trimmed) ==
    Len(trimmed) >= NameMinLength /\ Len(trimmed) <= NameMaxLength

\* teamValidation.respond and the handler's own check of req.body.status
ValidDecision(status) == status \in {"approved", "rejected"}

\* the status values a respond request may carry
Decisions == {"approved", "rejected", "maybe"}

-----------------------------------------------------------------------------
(* Documents *)

\* the memberIds lists of createTeam requests
RECURSIVE SeqsUpTo(_, _)
SeqsUpTo(S, n) ==
    IF n = 0 THEN { <<>> }
    ELSE LET shorter == SeqsUpTo(S, n - 1)
         IN  shorter \cup { Append(q, x) : q \in shorter, x \in S }

\* the ids the overlapping createTeam requests invite: a student who opens
\* no team of their own, and the id of nobody
InviteeIds == {"s3", GhostId}

InviteLists == SeqsUpTo(InviteeIds, MaxInvitees)

\* ids a request may name as its team: every stored one and one that is not
TeamIds == 1 .. (MaxTeams + 1)

\* competitionTeamMemberSchema: a member entry as createTeam builds it
\* (email and registrationNo are copied from the student like name)
NewMember(student) ==
    [studentId |-> student._id, name |-> student.name,
     status |-> "pending", joinedAt |-> "unset"]

\* team.members.findIndex(m => m.studentId === studentId): 0 for -1
RECURSIVE FindIndexFrom(_, _, _)
FindIndexFrom(members, studentId, i) ==
    IF i > Len(members) THEN 0
    ELSE IF members[i].studentId = studentId THEN i
    ELSE FindIndexFrom(members, studentId, i + 1)

MemberIndex(members, studentId) == FindIndexFrom(members, studentId, 1)

\* team.members.filter(m => m.studentId !== id)
FilterOut(members, id) ==
    SelectSeq(members, LAMBDA m : m.studentId # id)

\* members.every(m => m.status !== 'pending')
AllResponded(members) ==
    \A i \in 1 .. Len(members) : members[i].status # "pending"

\* members.every(m => m.status === 'approved')
AllApproved(members) ==
    \A i \in 1 .. Len(members) : members[i].status = "approved"

-----------------------------------------------------------------------------
(* save(): the update a handler sends, and its effect on the stored document *)

\* the update of a save() that found nothing modified
NoWrite ==
    [whereV |-> FALSE, v |-> 0, incV |-> FALSE,
     idx |-> 0, setMemberStatus |-> FALSE, memberStatus |-> "pending",
     setJoinedAt |-> FALSE,
     setMembers |-> FALSE, members |-> <<>>,
     setStatus |-> FALSE, status |-> "pending"]

\* does the update carry any modified path
IsModified(w) ==
    w.setMemberStatus \/ w.setJoinedAt \/ w.setMembers \/ w.setStatus

\* version check of a save(): members.i.* and a replaced members array are
\* sent with the loaded __v in the filter
VersionMatches(doc, w) == ~w.whereV \/ doc.v = w.v

\* the stored document after the update's $set / $inc
ApplyWrite(doc, w) ==
    LET m1 == IF w.setMembers THEN w.members ELSE doc.members
        m2 == IF w.setMemberStatus
              THEN [m1 EXCEPT ![w.idx].status = w.memberStatus]
              ELSE m1
        m3 == IF w.setJoinedAt
              THEN [m2 EXCEPT ![w.idx].joinedAt = "set"]
              ELSE m2
    IN  [doc EXCEPT !.members = m3,
                    !.status = IF w.setStatus THEN w.status ELSE doc.status,
                    !.v = IF w.incV THEN doc.v + 1 ELSE doc.v]

-----------------------------------------------------------------------------
(* The handlers up to their write: what each decides from the document read *)

\* a handler's outcome: an error, or the update its save() will send
Fail(e) == [err |-> e, write |-> NoWrite]
Save(w) == [err |-> "ok", write |-> w]

\* respondToInvitation without its check of memberIndex === -1
RespondPlanNoInvitationCheck(found, doc, studentId, status) ==
    IF ~ValidDecision(status) THEN Fail("InvalidStatus")
    ELSE IF ~found THEN Fail("TeamNotFound")
    ELSE Save(NoWrite)

\* respondToInvitation activating the team on every response
RespondPlanActivatesOnResponse(found, doc, studentId, status) ==
    IF ~ValidDecision(status) THEN Fail("InvalidStatus")
    ELSE IF ~found THEN Fail("TeamNotFound")
    ELSE LET memberIndex == MemberIndex(doc.members, studentId)
         IN  IF memberIndex = 0 THEN Fail("NotInvited")
             ELSE Save([NoWrite EXCEPT
                        !.whereV = doc.members[memberIndex].status # status
                                   \/ status = "approved",
                        !.v = doc.v,
                        !.idx = memberIndex,
                        !.setMemberStatus =
                            doc.members[memberIndex].status # status,
                        !.memberStatus = status,
                        !.setJoinedAt = (status = "approved"),
                        !.setStatus = doc.status # "active",
                        !.status = "active"])

\* respondToInvitation, lines 152-182
RespondPlan(found, doc, studentId, status) ==
    IF ~ValidDecision(status) THEN Fail("InvalidStatus")
    ELSE IF ~found THEN Fail("TeamNotFound")
    ELSE LET memberIndex == MemberIndex(doc.members, studentId)
         IN  IF memberIndex = 0 THEN Fail("NotInvited")
             ELSE LET local ==
                          [doc.members EXCEPT
                             ![memberIndex].status = status,
                             ![memberIndex].joinedAt =
                                 IF status = "approved" THEN "set" ELSE @]
                      activate == AllResponded(local) /\ AllApproved(local)
                  IN  Save([NoWrite EXCEPT
                        !.whereV = doc.members[memberIndex].status # status
                                   \/ status = "approved",
                        !.v = doc.v,
                        !.idx = memberIndex,
                        !.setMemberStatus =
                            doc.members[memberIndex].status # status,
                        !.memberStatus = status,
                        !.setJoinedAt = (status = "approved"),
                        !.setStatus = activate /\ doc.status # "active",
                        !.status = "active"])

\* leaveTeam without its check that the student is the leader
LeavePlanNoLeaderCheck(found, doc, studentId) ==
    IF ~found THEN Fail("TeamNotFound")
    ELSE LET kept == FilterOut(doc.members, studentId)
         IN  Save([NoWrite EXCEPT
                     !.whereV = kept # doc.members,
                     !.v = doc.v,
                     !.incV = kept # doc.members,
                     !.setMembers = kept # doc.members,
                     !.members = kept])

\* leaveTeam marking the student's entries rejected instead of removing them
LeavePlanMarksRejected(found, doc, studentId) ==
    IF ~found THEN Fail("TeamNotFound")
    ELSE IF doc.leaderId = studentId THEN Fail("LeaderCannotLeave")
    ELSE LET kept == [i \in 1 .. Len(doc.members) |->
                        IF doc.members[i].studentId = studentId
                        THEN [doc.members[i] EXCEPT !.status = "rejected"]
                        ELSE doc.members[i]]
         IN  Save([NoWrite EXCEPT
                     !.whereV = kept # doc.members,
                     !.v = doc.v,
                     !.incV = kept # doc.members,
                     !.setMembers = kept # doc.members,
                     !.members = kept])

\* leaveTeam, lines 203-216
LeavePlan(found, doc, studentId) ==
    IF ~found THEN Fail("TeamNotFound")
    ELSE IF doc.leaderId = studentId THEN Fail("LeaderCannotLeave")
    ELSE LET kept == FilterOut(doc.members, studentId)
         IN  Save([NoWrite EXCEPT
                     !.whereV = kept # doc.members,
                     !.v = doc.v,
                     !.incV = kept # doc.members,
                     !.setMembers = kept # doc.members,
                     !.members = kept])

\* disbandTeam without its check that the student is the leader
DisbandPlanAnyone(found, doc, studentId) ==
    IF ~found THEN Fail("TeamNotFound")
    ELSE Save([NoWrite EXCEPT
                 !.setStatus = doc.status # "disbanded",
                 !.status = "disbanded"])

\* disbandTeam, lines 237-247
DisbandPlan(found, doc, studentId) ==
    IF ~found THEN Fail("TeamNotFound")
    ELSE IF doc.leaderId # studentId THEN Fail("OnlyLeaderDisbands")
    ELSE Save([NoWrite EXCEPT
                 !.setStatus = doc.status # "disbanded",
                 !.status = "disbanded"])

\* removeMember re-evaluating the team status as respondToInvitation does
RemovePlanActivates(found, doc, studentId, memberId) ==
    IF ~found THEN Fail("TeamNotFound")
    ELSE IF doc.leaderId # studentId THEN Fail("OnlyLeaderRemoves")
    ELSE LET kept == FilterOut(doc.members, memberId)
             activate == /\ kept # doc.members
                         /\ AllApproved(kept)
                         /\ doc.status # "active"
         IN  Save([NoWrite EXCEPT
                     !.whereV = kept # doc.members,
                     !.v = doc.v,
                     !.incV = kept # doc.members,
                     !.setMembers = kept # doc.members,
                     !.members = kept,
                     !.setStatus = activate,
                     !.status = "active"])

\* removeMember, lines 267-280
RemovePlan(found, doc, studentId, memberId) ==
    IF ~found THEN Fail("TeamNotFound")
    ELSE IF doc.leaderId # studentId THEN Fail("OnlyLeaderRemoves")
    ELSE LET kept == FilterOut(doc.members, memberId)
         IN  Save([NoWrite EXCEPT
                     !.whereV = kept # doc.members,
                     !.v = doc.v,
                     !.incV = kept # doc.members,
                     !.setMembers = kept # doc.members,
                     !.members = kept])

\* CompetitionTeam.findOne({ name })
FindOneByName(db, name) ==
    \E i \in 1 .. Len(db) : db[i].name = name

\* createTeam, lines 32-48: the entries of the ids that resolve, in order
ResolveMembers(memberIds) ==
    LET looked == [i \in 1 .. Len(memberIds) |-> StudentFindById(memberIds[i])]
        valid == SelectSeq(looked, LAMBDA st : st.found)
    IN  [i \in 1 .. Len(valid) |-> NewMember(valid[i])]

\* createTeam storing every new team as 'pending'
NewTeamAlwaysPending(name, leader, validMembers) ==
    [name |-> Trim(name), leaderId |-> leader._id, leaderName |-> leader.name,
     members |-> validMembers, status |-> "pending", v |-> 0]

\* the document CompetitionTeam.create is given, lines 50-57
NewTeam(name, leader, validMembers) ==
    [name |-> Trim(name), leaderId |-> leader._id, leaderName |-> leader.name,
     members |-> validMembers,
     status |-> IF Len(validMembers) > 0 THEN "pending" ELSE "active",
     v |-> 0]

\* a placeholder where a handler has no document
NoDoc == NewTeam(<<>>, StudentFindById(GhostId), <<>>)

\* createTeam, lines 17-48, behind the route's validation of the name
CreatePlan(db, leaderId, rawName, memberIds) ==
    LET name == Trim(rawName)
        leader == StudentFindById(leaderId)
    IN  IF ~ValidTeamName(name) THEN [err |-> "ValidationFailed", doc |-> NoDoc]
        ELSE IF ~leader.found THEN [err |-> "StudentNotFound", doc |-> NoDoc]
        ELSE IF FindOneByName(db, name)
             THEN [err |-> "DuplicateName", doc |-> NoDoc]
        ELSE [err |-> "ok",
              doc |-> NewTeam(name, leader, ResolveMembers(memberIds))]

\* the name field without unique: true
NoUniqueIndex(db, doc) == FALSE

\* the unique index on name (schema line 66) rejects the insert
UniqueIndexRejects(db, doc) == FindOneByName(db, doc.name)

-----------------------------------------------------------------------------
(* The database's side of a write *)

\* CompetitionTeam.create: insert under the unique index, _id = position
CommitCreate(db, doc) ==
    IF UniqueIndexRejects(db, doc)
    THEN [err |-> "DuplicateKey", db |-> db]
    ELSE [err |-> "ok", db |-> Append(db, doc)]

\* team.save(): nothing sent when nothing is modified, VersionError when
\* the filter on __v matches no document
CommitSave(db, teamId, w) ==
    IF ~IsModified(w) THEN [err |-> "ok", db |-> db]
    ELSE IF ~VersionMatches(db[teamId], w)
         THEN [err |-> "VersionError", db |-> db]
    ELSE [err |-> "ok", db |-> [db EXCEPT ![teamId] = ApplyWrite(@, w)]]

\* CompetitionTeam.findById
TeamExists(db, teamId) == teamId \in 1 .. Len(db)

TeamFindById(db, teamId) == IF TeamExists(db, teamId) THEN db[teamId] ELSE NoDoc

\* CompetitionTeam.find({ 'members.studentId': studentId,
\*                        'members.status': 'pending' }): each condition on
\* a path into the members array is met by any element of the array
FindInvitationTeams(db, studentId) ==
    { t \in 1 .. Len(db) :
        /\ \E i \in 1 .. Len(db[t].members) :
              db[t].members[i].studentId = studentId
        /\ \E j \in 1 .. Len(db[t].members) :
              db[t].members[j].status = "pending" }

\* the teamId of every invitation getPendingInvitations returns
PendingInvitations(db, studentId) == FindInvitationTeams(db, studentId)

-----------------------------------------------------------------------------
(* Requests and responses *)

\* lastResult is the outcome of the last request that finished: "ok"
\* ("LeftTeam" after leaveTeam, "MemberRemoved" after removeMember,
\* "InvitationsListed" after getPendingInvitations), or the
\* error the handler, the route's validator or the database raised

\* the inputs of a request: body and route parameters
Args(name, memberIds, status, memberId) ==
    [name |-> name, memberIds |-> memberIds, status |-> status,
     memberId |-> memberId]

NoArgs == Args(<<>>, <<>>, "none", "none")

\* a student's request between its read and its write
InFlight(op, teamId, doc, write, args) ==
    [op |-> op, team |-> teamId, doc |-> doc, write |-> write, args |-> args]

\* no request of the student is running
Idle == [op |-> "idle"]

\* the callers of the quiz endpoints, which ask for no authentication
Clients == {"c1", "c2"}

Init ==
    /\ teams = <<>>
    /\ req = [s \in Directory |-> Idle]
    /\ lastResult = "none"
    /\ quizzes = <<>>
    /\ attempts = <<>>
    /\ calls = [c \in Clients |-> Idle]

-----------------------------------------------------------------------------
(* Sequential requests: one handler, read to response, per step *)

\* member entries stored in all teams together
RECURSIVE EntryCount(_)
EntryCount(db) ==
    IF db = <<>> THEN 0 ELSE Len(Head(db).members) + EntryCount(Tail(db))

\* room for one more document with these members, within the bounds
HasRoom(db, doc) ==
    Len(db) < MaxTeams /\ EntryCount(db) + Len(doc.members) <= MaxEntries

\* createTeam from request to response: nothing is stored on an error
CreateOutcome(db, plan) ==
    IF plan.err # "ok" THEN [err |-> plan.err, db |-> db]
    ELSE CommitCreate(db, plan.doc)

\* a handler on one team from request to response: the save() is reached
\* only when the handler threw nothing
SaveOutcome(db, teamId, plan) ==
    IF plan.err # "ok" THEN [err |-> plan.err, db |-> db]
    ELSE CommitSave(db, teamId, plan.write)

\* the route's validators in front of respondToInvitation
RespondRoute(found, doc, studentId, status) ==
    IF ~ValidDecision(status) THEN Fail("ValidationFailed")
    ELSE RespondPlan(found, doc, studentId, status)

\* POST /api/v1/competition-teams
CreateTeam(s, rawName, memberIds) ==
    LET plan == CreatePlan(teams, s, rawName, memberIds)
        done == CreateOutcome(teams, plan)
    IN  /\ req[s] = Idle
        /\ plan.err = "ok" => HasRoom(teams, plan.doc)
        /\ teams' = done.db
        /\ lastResult' = done.err
        /\ UNCHANGED <<req, quizzes, attempts, calls>>

\* POST /api/v1/competition-teams/:id/respond
RespondToInvitation(s, teamId, status) ==
    LET plan == RespondRoute(TeamExists(teams, teamId),
                             TeamFindById(teams, teamId), s, status)
        done == SaveOutcome(teams, teamId, plan)
    IN  /\ req[s] = Idle
        /\ teams' = done.db
        /\ lastResult' = done.err
        /\ UNCHANGED <<req, quizzes, attempts, calls>>

\* POST /api/v1/competition-teams/:id/leave
LeaveTeam(s, teamId) ==
    LET plan == LeavePlan(TeamExists(teams, teamId),
                          TeamFindById(teams, teamId), s)
        done == SaveOutcome(teams, teamId, plan)
    IN  /\ req[s] = Idle
        /\ teams' = done.db
        /\ lastResult' = IF done.err = "ok" THEN "LeftTeam" ELSE done.err
        /\ UNCHANGED <<req, quizzes, attempts, calls>>

\* DELETE /api/v1/competition-teams/:id
DisbandTeam(s, teamId) ==
    LET plan == DisbandPlan(TeamExists(teams, teamId),
                            TeamFindById(teams, teamId), s)
        done == SaveOutcome(teams, teamId, plan)
    IN  /\ req[s] = Idle
        /\ teams' = done.db
        /\ lastResult' = done.err
        /\ UNCHANGED <<req, quizzes, attempts, calls>>

\* DELETE /api/v1/competition-teams/:id/members/:memberId
RemoveMember(s, teamId, memberId) ==
    LET plan == RemovePlan(TeamExists(teams, teamId),
                           TeamFindById(teams, teamId), s, memberId)
        done == SaveOutcome(teams, teamId, plan)
    IN  /\ req[s] = Idle
        /\ teams' = done.db
        /\ lastResult' = IF done.err = "ok" THEN "MemberRemoved" ELSE done.err
        /\ UNCHANGED <<req, quizzes, attempts, calls>>

\* GET /api/v1/competition-teams/invitations: the response carries
\* PendingInvitations(teams, s)
GetPendingInvitations(s) ==
    /\ req[s] = Idle
    /\ lastResult' = "InvitationsListed"
    /\ UNCHANGED <<teams, req, quizzes, attempts, calls>>

\* the createTeam requests of the lifecycle runs: s1 invites nobody, two
\* students, or itself together with an id that resolves to nobody; s2
\* invites one student
Creators == {"s1", "s2"}

Invitations(s) ==
    IF s = "s1"
    THEN { <<>>, <<"s2", "s3">>, <<"s1", GhostId>> }
    ELSE { <<"s3">> }

Next ==
    \/ \E s \in Creators, n \in RawNames :
          \E ids \in Invitations(s) : CreateTeam(s, n, ids)
    \/ \E s \in Directory, t \in TeamIds, d \in Decisions :
          RespondToInvitation(s, t, d)
    \/ \E s \in Directory, t \in TeamIds : LeaveTeam(s, t)
    \/ \E s \in Directory, t \in TeamIds : DisbandTeam(s, t)
    \/ \E s \in Directory, t \in TeamIds, m \in StudentIds :
          RemoveMember(s, t, m)
    \/ \E s \in Directory : GetPendingInvitations(s)

Spec == Init /\ [][Next]_vars

-----------------------------------------------------------------------------
(* Properties of the team lifecycle, checked under Spec *)

TeamIndexes == 1 .. Len(teams)

MemberIndexes(t) == 1 .. Len(teams[t].members)

\* the team's entries are students other than its leader
InvitedOthers(t) ==
    \A i \in MemberIndexes(t) :
        teams[t].members[i].studentId # teams[t].leaderId

\* C1: in every reachable state a team whose status is 'active' has every
\* member entry in status 'approved' (stated for the teams whose entries are
\* students other than the leader).
C1_ActiveImpliesAllApproved ==
    \A t \in TeamIndexes :
        (InvitedOthers(t) /\ teams[t].status = "active")
        => AllApproved(teams[t].members)

\* C2: 'disbanded' is terminal: no step takes a team out of status
\* 'disbanded' (stated for the teams whose entries are students other than
\* the leader).
C2_DisbandedIsTerminal ==
    [][\A t \in TeamIndexes :
          (InvitedOthers(t) /\ teams[t].status = "disbanded")
          => teams'[t].status = "disbanded"]_vars

\* C4: 'approved' and 'rejected' are terminal for a member entry: while the
\* entry exists (the step removes no entry of its team) no step changes an
\* entry's status away from 'approved' or 'rejected' (stated for the teams
\* whose entries are students other than the leader).
C4_MemberStatusIsTerminal ==
    [][\A t \in TeamIndexes :
          (InvitedOthers(t)
              /\ Len(teams'[t].members) = Len(teams[t].members)) =>
              \A i \in MemberIndexes(t) :
                  teams[t].members[i].status \in {"approved", "rejected"} =>
                      teams'[t].members[i].status = teams[t].members[i].status]_vars

\* C5: in every reachable state no team has a member entry whose studentId
\* is the team's leaderId.
C5_LeaderIsNoMember ==
    \A t \in TeamIndexes : InvitedOthers(t)

\* one member entry is 'rejected' and every other entry is 'approved'
OneRejectedRestApproved(members) ==
    \E i \in 1 .. Len(members) :
        /\ members[i].status = "rejected"
        /\ \A j \in (1 .. Len(members)) \ {i} : members[j].status = "approved"

\* C9: once one invited member has rejected and all others have approved, the
\* team's status is 'pending' and no later step other than the leader's
\* disbandTeam changes it: there is no transition to 'active' (stated for
\* the teams whose entries are students other than the leader).
C9_RejectionFreezesPending ==
    [][\A t \in TeamIndexes :
          (InvitedOthers(t)
              /\ teams[t].status = "pending"
              /\ OneRejectedRestApproved(teams[t].members))
          => teams'[t].status \in {"pending", "disbanded"}]_vars

\* C7: a team created by createTeam has initial status 'active' if and only
\* if its resolved member list is empty, 'pending' if it has at least one
\* resolved invitee, and every created member entry starts 'pending'.
C7_InitialStatus ==
    [][Len(teams') = Len(teams) + 1 =>
          LET created == teams'[Len(teams')]
          IN  /\ created.status = "active" <=> created.members = <<>>
              /\ created.members # <<>> => created.status = "pending"
              /\ \A i \in 1 .. Len(created.members) :
                    created.members[i].status = "pending"]_vars

\* a team stored 'pending' with its two members, while a createTeam whose
\* only invitee resolved to nobody is about to store an 'active' team
C7_Witness ==
    /\ Len(teams) = 1
    /\ Len(teams[1].members) = 2
    /\ teams[1].status = "pending"
    /\ \E s \in Directory :
          /\ req[s].op = "create"
          /\ req[s].args.memberIds = <<GhostId>>
          /\ req[s].doc.members = <<>>
          /\ req[s].doc.status = "active"

\* what respondToInvitation answers in the current state
RespondAnswer(s, t, d) ==
    RespondRoute(TeamExists(teams, t), TeamFindById(teams, t), s, d)

\* C10: respondToInvitation fails with NotFound when the team does not exist,
\* with NotInvited when the student has no member entry in the team, and with
\* a validation error when the decision is neither 'approved' nor 'rejected';
\* a request that fails in one of these ways changes no team.
C10_RespondFailures ==
    /\ [](\A s \in Directory, t \in TeamIds, d \in Decisions :
             /\ ~ValidDecision(d) =>
                    RespondAnswer(s, t, d).err = "ValidationFailed"
             /\ (ValidDecision(d) /\ ~TeamExists(teams, t)) =>
                    RespondAnswer(s, t, d).err = "TeamNotFound"
             /\ (ValidDecision(d) /\ TeamExists(teams, t)
                   /\ \A i \in MemberIndexes(t) :
                          teams[t].members[i].studentId # s) =>
                    RespondAnswer(s, t, d).err = "NotInvited"
             /\ RespondAnswer(s, t, d).err # "ok" =>
                    SaveOutcome(teams, t, RespondAnswer(s, t, d)).db = teams)
    /\ [][lastResult' \in {"ValidationFailed", "TeamNotFound", "NotInvited"}
             => teams' = teams]_vars

\* a respondToInvitation by a student the team never invited has just failed
C10_Witness ==
    /\ lastResult = "NotInvited"
    /\ \E t \in TeamIndexes : teams[t].members # <<>>

-----------------------------------------------------------------------------
(* Overlapping requests: a handler's step up to its write, and the write *)

\* students whose createTeam has passed its checks and not yet inserted
Creating == { s \in Directory : req[s].op = "create" }

RECURSIVE PendingEntries(_)
PendingEntries(S) ==
    IF S = {} THEN 0
    ELSE LET s == CHOOSE x \in S : TRUE
         IN  Len(req[s].doc.members) + PendingEntries(S \ {s})

\* room for one more document, counting the ones about to be inserted
HasRoomInFlight(doc) ==
    /\ Len(teams) + Cardinality(Creating) < MaxTeams
    /\ EntryCount(teams) + PendingEntries(Creating) + Len(doc.members)
          <= MaxEntries

\* createTeam, lines 17-48: the reads (leader, findOne by name, invitees)
CreateBegin(s, rawName, memberIds) ==
    LET plan == CreatePlan(teams, s, rawName, memberIds)
    IN  /\ req[s] = Idle
        /\ IF plan.err # "ok"
           THEN /\ lastResult' = plan.err
                /\ UNCHANGED req
           ELSE /\ HasRoomInFlight(plan.doc)
                /\ req' = [req EXCEPT ![s] =
                             InFlight("create", 0, plan.doc, NoWrite,
                                      Args(rawName, memberIds, "none", "none"))]
                /\ UNCHANGED lastResult
        /\ UNCHANGED <<teams, quizzes, attempts, calls>>

\* createTeam, lines 50-57: CompetitionTeam.create and the response
CreateCommit(s) ==
    LET done == CommitCreate(teams, req[s].doc)
    IN  /\ req[s].op = "create"
        /\ teams' = done.db
        /\ lastResult' = done.err
        /\ req' = [req EXCEPT ![s] = Idle]
        /\ UNCHANGED <<quizzes, attempts, calls>>

NextCreate ==
    \/ \E s \in Creators, n \in RawNames, ids \in InviteLists :
          CreateBegin(s, n, ids)
    \/ \E s \in Creators : CreateCommit(s)

SpecCreate == Init /\ [][NextCreate]_vars

\* respondToInvitation, lines 148-182: findById and the changes in memory
RespondBegin(s, teamId, status) ==
    LET plan == RespondRoute(TeamExists(teams, teamId),
                             TeamFindById(teams, teamId), s, status)
    IN  /\ req[s] = Idle
        /\ IF plan.err # "ok"
           THEN /\ lastResult' = plan.err
                /\ UNCHANGED req
           ELSE /\ req' = [req EXCEPT ![s] =
                             InFlight("respond", teamId, NoDoc, plan.write,
                                      Args(<<>>, <<>>, status, "none"))]
                /\ UNCHANGED lastResult
        /\ UNCHANGED <<teams, quizzes, attempts, calls>>

\* respondToInvitation, line 184: team.save() and the response
RespondSave(s) ==
    LET done == CommitSave(teams, req[s].team, req[s].write)
    IN  /\ req[s].op = "respond"
        /\ teams' = done.db
        /\ lastResult' = done.err
        /\ req' = [req EXCEPT ![s] = Idle]
        /\ UNCHANGED <<quizzes, attempts, calls>>

\* the collection after one createTeam of the lifecycle runs
InitRace ==
    /\ \E n \in RawNames, ids \in Invitations("s1") :
          LET plan == CreatePlan(<<>>, "s1", n, ids)
          IN  /\ plan.err = "ok"
              /\ teams = CreateOutcome(<<>>, plan).db
    /\ req = [s \in Directory |-> Idle]
    /\ lastResult = "ok"
    /\ quizzes = <<>>
    /\ attempts = <<>>
    /\ calls = [c \in Clients |-> Idle]

NextRace ==
    \/ \E s \in Directory, t \in TeamIds, d \in Decisions :
          RespondBegin(s, t, d)
    \/ \E s \in Directory : RespondSave(s)
    \/ \E s \in Directory, t \in TeamIds : LeaveTeam(s, t)
    \/ \E s \in Directory, t \in TeamIds : DisbandTeam(s, t)
    \/ \E s \in Directory, t \in TeamIds, m \in StudentIds :
          RemoveMember(s, t, m)

SpecRace == InitRace /\ [][NextRace]_vars

-----------------------------------------------------------------------------
(* Properties of overlapping requests, checked under SpecCreate / SpecRace *)

NoRequestInFlight == \A s \in Directory : req[s] = Idle

\* C3: for a team with one or more invited members, none of them removed,
\* once every invited member has responded 'approved' and the requests have
\* finished, the stored team status is 'active' (or the leader's
\* 'disbanded'), whatever the interleaving of the respond requests.
C3_AllApprovedIsActive ==
    \A t \in TeamIndexes :
        (/\ NoRequestInFlight
         /\ teams[t].v = 0
         /\ teams[t].members # <<>>
         /\ AllApproved(teams[t].members))
        => teams[t].status \in {"active", "disbanded"}

\* no two stored teams have the same name
NoTwoTeamsShareName ==
    \A i \in TeamIndexes, j \in TeamIndexes :
        i # j => teams[i].name # teams[j].name

\* createTeam for a name that is stored answers DuplicateName, stores nothing
DuplicateNameIsRefused ==
    \A s \in Creators, n \in RawNames :
        (ValidTeamName(Trim(n)) /\ \E t \in TeamIndexes : teams[t].name = Trim(n))
        => \A ids \in InviteLists :
              /\ CreatePlan(teams, s, n, ids).err = "DuplicateName"
              /\ CreateOutcome(teams, CreatePlan(teams, s, n, ids)).db = teams

\* C6: createTeam fails with a DuplicateName error and stores no team when a
\* team with the same name exists, and after any interleaving of createTeam
\* requests no two stored teams have the same name.
C6_UniqueTeamNames ==
    /\ [](NoTwoTeamsShareName /\ DuplicateNameIsRefused)
    /\ [][lastResult' \in {"DuplicateName", "DuplicateKey"}
             => teams' = teams]_vars

\* two createTeam requests for one name overlapped: the second insert was
\* refused and one team is stored
C6_Witness ==
    /\ lastResult = "DuplicateKey"
    /\ Len(teams) = 1

\* entries of a member list that belong to one student
EntriesOf(members, id) ==
    { i \in 1 .. Len(members) : members[i].studentId = id }

\* the ids of a memberIds list
IdsOf(memberIds) == { memberIds[i] : i \in 1 .. Len(memberIds) }

\* C8: the member list of a created team holds exactly one entry for each
\* invitee id that resolves to a student and none for any other id (stated
\* for requests that do not name the leader, whose entry is C5's matter).
C8_OneEntryPerResolvedInvitee ==
    [][\A s \in Directory :
          (req[s].op = "create" /\ req'[s] = Idle
              /\ s \notin IdsOf(req[s].args.memberIds)
              /\ Len(teams') = Len(teams) + 1)
          => \A id \in StudentIds :
                Cardinality(EntriesOf(teams'[Len(teams')].members, id))
                  = IF id \in Directory /\ id \in IdsOf(req[s].args.memberIds)
                    THEN 1 ELSE 0]_vars

-----------------------------------------------------------------------------
(* Leaving, disbanding and removing, checked under Spec *)

\* what leaveTeam answers in the current state, and what it stores
LeaveAnswer(s, t) ==
    LeavePlan(TeamExists(teams, t), TeamFindById(teams, t), s)

LeaveResult(s, t) == SaveOutcome(teams, t, LeaveAnswer(s, t))

\* C11: leaveTeam invoked by the team's leader fails with LeaderCannotLeave
\* and leaves the team's member list and status (every team) unchanged.
C11_LeaderCannotLeave ==
    /\ [](\A t \in TeamIndexes :
             /\ LeaveAnswer(teams[t].leaderId, t).err = "LeaderCannotLeave"
             /\ LeaveResult(teams[t].leaderId, t).db = teams)
    /\ [][lastResult' = "LeaderCannotLeave" => teams' = teams]_vars

\* the leader of a team with invited members has just been refused to leave
C11_Witness ==
    /\ lastResult = "LeaderCannotLeave"
    /\ \E t \in TeamIndexes : teams[t].members # <<>> /\ InvitedOthers(t)

\* what disbandTeam answers in the current state, and what it stores
DisbandAnswer(s, t) ==
    DisbandPlan(TeamExists(teams, t), TeamFindById(teams, t), s)

DisbandResult(s, t) == SaveOutcome(teams, t, DisbandAnswer(s, t))

\* C12: disbandTeam invoked by a student other than the team's leader fails
\* and changes no team; invoked by the leader it succeeds, the team's status
\* becomes 'disbanded' whatever it was, and nothing else of any team changes.
C12_DisbandLeaderOnly ==
    /\ [](\A t \in TeamIndexes, s \in Directory :
             IF s # teams[t].leaderId
             THEN /\ DisbandAnswer(s, t).err = "OnlyLeaderDisbands"
                  /\ DisbandResult(s, t).db = teams
             ELSE /\ DisbandResult(s, t).err = "ok"
                  /\ DisbandResult(s, t).db =
                        [teams EXCEPT ![t].status = "disbanded"])
    /\ [][lastResult' = "OnlyLeaderDisbands" => teams' = teams]_vars

\* one team with members was disbanded, and a student who leads no such team
\* has just been refused to disband one
C12_Witness ==
    /\ lastResult = "OnlyLeaderDisbands"
    /\ \E t \in TeamIndexes :
          teams[t].status = "disbanded" /\ teams[t].members # <<>>

\* the entries of a member list that belong to other students than id
EntriesOfOthers(members, id) ==
    SelectSeq(members, LAMBDA m : m.studentId # id)

\* C13: leaveTeam by a student who is not the leader succeeds; afterwards the
\* team has no entry of the student in any status, the entries of the other
\* members are as before, and the status of the team is as before (an
\* 'active' team stays 'active', a 'pending' one 'pending'); no other team
\* changes.
C13_LeaveRemovesEntry ==
    /\ [](\A t \in TeamIndexes, s \in Directory :
             s # teams[t].leaderId =>
                /\ LeaveResult(s, t).err = "ok"
                /\ \A i \in 1 .. Len(LeaveResult(s, t).db[t].members) :
                      LeaveResult(s, t).db[t].members[i].studentId # s
                /\ LeaveResult(s, t).db[t].members
                      = EntriesOfOthers(teams[t].members, s)
                /\ LeaveResult(s, t).db[t].status = teams[t].status
                /\ \A u \in TeamIndexes \ {t} :
                      LeaveResult(s, t).db[u] = teams[u])
    /\ [][lastResult' = "LeftTeam" =>
             /\ Len(teams') = Len(teams)
             /\ \A t \in TeamIndexes :
                   /\ teams'[t].status = teams[t].status
                   /\ Len(teams'[t].members) <= Len(teams[t].members)]_vars

\* a member has left a team that is still 'pending' although every member
\* it has left is approved
C13_Witness ==
    /\ lastResult = "LeftTeam"
    /\ \E t \in TeamIndexes :
          /\ teams[t].v > 0
          /\ teams[t].status = "pending"
          /\ teams[t].members # <<>>
          /\ AllApproved(teams[t].members)

\* what removeMember answers in the current state, and what it stores
RemoveAnswer(s, t, m) ==
    RemovePlan(TeamExists(teams, t), TeamFindById(teams, t), s, m)

RemoveResult(s, t, m) == SaveOutcome(teams, t, RemoveAnswer(s, t, m))

\* C14: removeMember invoked by a student other than the team's leader fails
\* and changes no team; invoked by the leader it succeeds, the team has the
\* entries of all members but the named one as before, none of the named
\* one, and its status as before; no other team changes.
C14_RemoveLeaderOnly ==
    /\ [](\A t \in TeamIndexes, s \in Directory, m \in StudentIds :
             IF s # teams[t].leaderId
             THEN /\ RemoveAnswer(s, t, m).err = "OnlyLeaderRemoves"
                  /\ RemoveResult(s, t, m).db = teams
             ELSE /\ RemoveResult(s, t, m).err = "ok"
                  /\ RemoveResult(s, t, m).db[t].members
                        = EntriesOfOthers(teams[t].members, m)
                  /\ RemoveResult(s, t, m).db[t].status = teams[t].status
                  /\ \A u \in TeamIndexes \ {t} :
                        RemoveResult(s, t, m).db[u] = teams[u])
    /\ [][lastResult' \in {"OnlyLeaderRemoves", "MemberRemoved"} =>
             /\ Len(teams') = Len(teams)
             /\ \A t \in TeamIndexes :
                   /\ teams'[t].status = teams[t].status
                   /\ lastResult' = "OnlyLeaderRemoves"
                         => teams'[t] = teams[t]]_vars

\* the leader has removed a member from a team that is still 'pending'
\* although every member it has left is approved
C14_Witness ==
    /\ lastResult = "MemberRemoved"
    /\ \E t \in TeamIndexes :
          /\ teams[t].v > 0
          /\ teams[t].status = "pending"
          /\ teams[t].members # <<>>
          /\ AllApproved(teams[t].members)

-----------------------------------------------------------------------------
(* Number arithmetic of the quiz scoring: IEEE 754 binary64, round to      *)
(* nearest, ties to even.  Long integers are runs of limbs of LimbBits     *)
(* bits, most significant first.  A positive Number is its significand of  *)
(* Precision bits, held as the first Precision bits of SigLimbs limbs,     *)
(* and the exponent of the last bit of these limbs.  The scoring never     *)
(* leaves the normal range and never goes below zero.                      *)

\* bits of a binary64 significand
Precision == 53

\* bits of a limb
LimbBits == 12

\* zero limbs appended to a dividend, so that a quotient by a divisor below
\* 2^14 keeps more than Precision + 1 significant bits
GuardLimbs == 2

RECURSIVE PowerOfTwo(_)
PowerOfTwo(k) == IF k = 0 THEN 1 ELSE 2 * PowerOfTwo(k - 1)

\* the limb base
LimbBase == PowerOfTwo(LimbBits)

\* limbs that hold a significand; the last one is used in its first bits
\* only, UlpInLimb is the lowest bit of it that is used
SigLimbs == (Precision + LimbBits - 1) \div LimbBits

UlpInLimb == PowerOfTwo(SigLimbs * LimbBits - Precision)

Zero == [sig |-> <<>>, exp |-> 0]

Zeros(n) == [i \in 1 .. n |-> 0]

\* the number of binary digits of a natural number
RECURSIVE BitLength(_)
BitLength(k) == IF k = 0 THEN 0 ELSE 1 + BitLength(k \div 2)

\* a run of limbs without its leading zero limbs
StripZeros(limbs) ==
    IF \A i \in 1 .. Len(limbs) : limbs[i] = 0 THEN <<>>
    ELSE LET first == CHOOSE i \in 1 .. Len(limbs) :
                         limbs[i] # 0 /\ \A j \in 1 .. (i - 1) : limbs[j] = 0
         IN  SubSeq(limbs, first, Len(limbs))

\* the limbs of a natural number
RECURSIVE LimbsOfInt(_)
LimbsOfInt(k) ==
    IF k = 0 THEN <<>>
    ELSE Append(LimbsOfInt(k \div LimbBase), k % LimbBase)

\* the natural number of a run of limbs
RECURSIVE IntOfLimbs(_)
IntOfLimbs(limbs) ==
    IF limbs = <<>> THEN 0
    ELSE LimbBase * IntOfLimbs(SubSeq(limbs, 1, Len(limbs) - 1))
           + limbs[Len(limbs)]

\* limbs of (the number of limbs) * n + carry
RECURSIVE MulLimbs(_, _, _)
MulLimbs(limbs, n, carry) ==
    IF limbs = <<>> THEN LimbsOfInt(carry)
    ELSE LET cur == limbs[Len(limbs)] * n + carry
         IN  Append(MulLimbs(SubSeq(limbs, 1, Len(limbs) - 1), n,
                             cur \div LimbBase),
                    cur % LimbBase)

\* long division of the limbs from position i on by n, r carried in
RECURSIVE DivLimbs(_, _, _, _)
DivLimbs(limbs, i, n, r) ==
    IF i > Len(limbs) THEN [q |-> <<>>, r |-> r]
    ELSE LET cur == r * LimbBase + limbs[i]
             rest == DivLimbs(limbs, i + 1, n, cur % n)
         IN  [q |-> <<cur \div n>> \o rest.q, r |-> rest.r]

\* limbs of the sum of two runs of limbs of one length, plus carry
RECURSIVE AddLimbs(_, _, _)
AddLimbs(a, b, carry) ==
    IF a = <<>> THEN LimbsOfInt(carry)
    ELSE LET cur == a[Len(a)] + b[Len(b)] + carry
         IN  Append(AddLimbs(SubSeq(a, 1, Len(a) - 1),
                             SubSeq(b, 1, Len(b) - 1), cur \div LimbBase),
                    cur % LimbBase)

\* the Number nearest to limbs * 2^exp (plus a non-zero rest below the
\* last limb when sticky), ties to the even significand
RoundNearestEven(limbs, exp, sticky) ==
    LET stripped == StripZeros(limbs)
    IN  IF stripped = <<>> THEN Zero
        ELSE LET shift == LimbBits - BitLength(stripped[1])
                 raised == MulLimbs(stripped, PowerOfTwo(shift), 0)
                 n == Len(raised)
             IN  IF n < SigLimbs
                 THEN [sig |-> raised \o Zeros(SigLimbs - n),
                       exp |-> exp - shift - LimbBits * (SigLimbs - n)]
                 ELSE LET last == raised[SigLimbs]
                          kept == [SubSeq(raised, 1, SigLimbs)
                                     EXCEPT ![SigLimbs] = last - (last % UlpInLimb)]
                          half == (last \div (UlpInLimb \div 2)) % 2 = 1
                          rest == \/ sticky
                                  \/ last % (UlpInLimb \div 2) # 0
                                  \/ \E i \in (SigLimbs + 1) .. n : raised[i] # 0
                          odd == (last \div UlpInLimb) % 2 = 1
                          up == half /\ (rest \/ odd)
                          e == exp - shift + LimbBits * (n - SigLimbs)
                          next == AddLimbs(kept, [Zeros(SigLimbs) EXCEPT
                                                    ![SigLimbs] = UlpInLimb], 0)
                      IN  IF ~up THEN [sig |-> kept, exp |-> e]
                          ELSE IF Len(next) > SigLimbs
                          THEN [sig |-> [Zeros(SigLimbs) EXCEPT
                                           ![1] = LimbBase \div 2],
                                exp |-> e + 1]
                          ELSE [sig |-> next, exp |-> e]

\* an integer as a Number
FromInt(k) == RoundNearestEven(LimbsOfInt(k), 0, FALSE)

\* x * n for a Number x and an integer n >= 0
MulInt(x, n) ==
    IF x = Zero \/ n = 0 THEN Zero
    ELSE RoundNearestEven(MulLimbs(x.sig, n, 0), x.exp, FALSE)

\* x / n for a Number x and an integer n > 0
DivInt(x, n) ==
    IF x = Zero THEN Zero
    ELSE LET d == DivLimbs(x.sig \o Zeros(GuardLimbs), 1, n, 0)
         IN  RoundNearestEven(d.q, x.exp - LimbBits * GuardLimbs, d.r # 0)

\* the limbs of (the number of limbs) * 2^k
ShiftLeft(limbs, k) ==
    MulLimbs(limbs, PowerOfTwo(k % LimbBits), 0) \o Zeros(k \div LimbBits)

\* x + y
Plus(x, y) ==
    IF x = Zero THEN y
    ELSE IF y = Zero THEN x
    ELSE LET e == IF x.exp < y.exp THEN x.exp ELSE y.exp
             a == ShiftLeft(x.sig, x.exp - e)
             b == ShiftLeft(y.sig, y.exp - e)
             w == IF Len(a) < Len(b) THEN Len(b) ELSE Len(a)
         IN  RoundNearestEven(AddLimbs(Zeros(w - Len(a)) \o a,
                                       Zeros(w - Len(b)) \o b, 0),
                              e, FALSE)

\* x < y
Less(x, y) ==
    IF y = Zero THEN FALSE
    ELSE IF x = Zero THEN TRUE
    ELSE \/ x.exp < y.exp
         \/ /\ x.exp = y.exp
            /\ \E i \in 1 .. SigLimbs :
                  /\ x.sig[i] < y.sig[i]
                  /\ \A j \in 1 .. (i - 1) : x.sig[j] = y.sig[j]

\* Math.max of two Numbers
MathMax(x, y) == IF Less(x, y) THEN y ELSE x

\* Math.round of a Number below 2^30: the nearest integer, halves upward
MathRound(x) ==
    IF x = Zero \/ -x.exp > LimbBits * SigLimbs THEN 0
    ELSE LET dropped == (-x.exp) \div LimbBits
             bits == (-x.exp) % LimbBits
             d == DivLimbs(SubSeq(x.sig, 1, SigLimbs - dropped), 1,
                           PowerOfTwo(bits), 0)
             half == IF bits > 0 THEN d.r >= PowerOfTwo(bits - 1)
                     ELSE dropped > 0
                          /\ x.sig[SigLimbs - dropped + 1] >= LimbBase \div 2
         IN  IntOfLimbs(d.q) + (IF half THEN 1 ELSE 0)

\* the literal 0.1
Tenth == DivInt(FromInt(1), 10)

-----------------------------------------------------------------------------
(* Quizzes and attempts *)

\* questions of a stored quiz
MaxQuestions == 2

\* responses of one submitted attempt
MaxResponses == 2

\* attempt documents the collection may hold
MaxAttempts == 2

\* marksAwarded, totalMarks and percentage are held in hundredths: k stands
\* for the Number Math.round(v * 100) / 100 with k = Math.round(v * 100)
Hundredths(k) == DivInt(FromInt(k), 100)

\* questions as the question schema admits them: four answers, one or more
\* of them correct, a time limit of 5 to 300 seconds, whole marks from 1
QuestionBank ==
    { [answers |-> <<TRUE, FALSE, FALSE, FALSE>>,
       timeLimitSeconds |-> 20, marks |-> 10],
      [answers |-> <<FALSE, TRUE, FALSE, TRUE>>,
       timeLimitSeconds |-> 40, marks |-> 1],
      [answers |-> <<FALSE, TRUE, FALSE, FALSE>>,
       timeLimitSeconds |-> 119, marks |-> 8] }

\* the question subdocument at position i: its _id is i
NewQuestion(i, q) ==
    [id |-> i, answers |-> q.answers,
     timeLimitSeconds |-> q.timeLimitSeconds, marks |-> q.marks]

\* the quiz documents of the model
Quizzes ==
    { [questions |-> [i \in 1 .. Len(qs) |-> NewQuestion(i, qs[i])],
       isVisible |-> v] :
        qs \in SeqsUpTo(QuestionBank, MaxQuestions) \ {<<>>}, v \in BOOLEAN }

\* quiz ids a request may name: 1 is the stored quiz, 2 the id of no quiz
QuizIds == {1, 2}

\* question ids a response may name; the last one is the id of no question
QuestionIds == 1 .. (MaxQuestions + 1)

AnswerIndexes == {0, 1}

ResponseTimes == {0, 10, 17, 40}

\* the responses a request may carry, and its list of them
ResponseInputs ==
    [questionId : QuestionIds, selectedAnswerIndex : AnswerIndexes,
     responseTimeSeconds : ResponseTimes]

Submissions == SeqsUpTo(ResponseInputs, MaxResponses)

\* quizValidations.submitAttempt on the responses
ValidSubmission(responses) ==
    /\ Len(responses) >= 1
    /\ \A i \in 1 .. Len(responses) :
          /\ responses[i].selectedAnswerIndex \in 0 .. 3
          /\ responses[i].responseTimeSeconds >= 0

\* the place of a quiz document that was deleted: its _id is given to no
\* other document
NoQuiz == [questions |-> <<>>, isVisible |-> FALSE]

\* Quiz.findById
QuizExists(db, quizId) == quizId \in 1 .. Len(db) /\ db[quizId] # NoQuiz

\* a lookup that resolves every unknown id to the first question
QuestionMapGetFirstByDefault(quiz, questionId) ==
    IF questionId \in 1 .. Len(quiz.questions) THEN questionId ELSE 1

\* questionMap.get(response.questionId): the position of the question,
\* 0 for undefined
QuestionMapGet(quiz, questionId) ==
    IF \E i \in 1 .. Len(quiz.questions) : quiz.questions[i].id = questionId
    THEN CHOOSE i \in 1 .. Len(quiz.questions) :
            quiz.questions[i].id = questionId
    ELSE 0

\* question.answers[selectedIndex]?.isCorrect || false
IsCorrect(question, selectedIndex) ==
    IF selectedIndex + 1 \in 1 .. Len(question.answers)
    THEN question.answers[selectedIndex + 1]
    ELSE FALSE

\* the marks of a correct answer without the floor of a tenth of the marks
MarksAwardedNoFloor(question, isCorrect, responseTime) ==
    IF ~isCorrect THEN 0
    ELSE LET timeLimit == question.timeLimitSeconds
             timeFraction ==
                 IF timeLimit - responseTime <= 0 THEN Zero
                 ELSE DivInt(FromInt(timeLimit - responseTime), timeLimit)
         IN  MathRound(MulInt(MulInt(timeFraction, question.marks), 100))

\* the marks of a correct answer growing with the response time
MarksAwardedGrowing(question, isCorrect, responseTime) ==
    IF ~isCorrect THEN 0
    ELSE LET timeLimit == question.timeLimitSeconds
             timeFraction ==
                 DivInt(FromInt(timeLimit + responseTime), timeLimit)
         IN  MathRound(MulInt(MathMax(MulInt(Tenth, question.marks),
                                      MulInt(timeFraction, question.marks)),
                              100))

\* submitQuizAttempt, lines 243-254
MarksAwarded(question, isCorrect, responseTime) ==
    IF ~isCorrect THEN 0
    ELSE LET timeLimit == question.timeLimitSeconds
             timeFraction ==
                 IF timeLimit - responseTime <= 0 THEN Zero
                 ELSE DivInt(FromInt(timeLimit - responseTime), timeLimit)
             marksAwarded ==
                 MathMax(MulInt(Tenth, question.marks),
                         MulInt(timeFraction, question.marks))
         IN  MathRound(MulInt(marksAwarded, 100))

\* submitQuizAttempt, lines 229-263: one scored response
ScoreResponse(quiz, response) ==
    LET question ==
            quiz.questions[QuestionMapGet(quiz, response.questionId)]
        isCorrect == IsCorrect(question, response.selectedAnswerIndex)
    IN  [questionId |-> response.questionId,
         selectedAnswerIndex |-> response.selectedAnswerIndex,
         responseTimeSeconds |-> response.responseTimeSeconds,
         isCorrect |-> isCorrect,
         marksAwarded |->
             MarksAwarded(question, isCorrect, response.responseTimeSeconds)]

ScoredResponses(quiz, responses) ==
    [i \in 1 .. Len(responses) |-> ScoreResponse(quiz, responses[i])]

\* scoredResponses.reduce((sum, r) => sum + r.marksAwarded, 0)
RECURSIVE SumMarksAwarded(_)
SumMarksAwarded(scored) ==
    IF scored = <<>> THEN Zero
    ELSE Plus(SumMarksAwarded(SubSeq(scored, 1, Len(scored) - 1)),
              Hundredths(scored[Len(scored)].marksAwarded))

\* the marks of the first question alone
MaxMarksOfFirstQuestion(quiz) == quiz.questions[1].marks

\* quiz.questions.reduce((sum, q) => sum + q.marks, 0)
RECURSIVE SumMarks(_)
SumMarks(questions) ==
    IF questions = <<>> THEN 0
    ELSE SumMarks(SubSeq(questions, 1, Len(questions) - 1))
           + questions[Len(questions)].marks

MaxMarks(quiz) == SumMarks(quiz.questions)

\* the share of the marks as a fraction of one, not of a hundred
PercentageOfOne(totalMarks, maxMarks) ==
    IF maxMarks > 0
    THEN MathRound(MulInt(DivInt(totalMarks, maxMarks), 100))
    ELSE 0

\* maxMarks > 0 ? Math.round((totalMarks / maxMarks) * 10000) / 100 : 0
Percentage(totalMarks, maxMarks) ==
    IF maxMarks > 0
    THEN MathRound(MulInt(DivInt(totalMarks, maxMarks), 10000))
    ELSE 0

\* the document of QuizAttempt.create, lines 265-282
NewAttempt(quizId, quiz, scoredResponses) ==
    LET totalMarks == SumMarksAwarded(scoredResponses)
        maxMarks == MaxMarks(quiz)
    IN  [quizId |-> quizId,
         responses |-> scoredResponses,
         totalMarks |-> MathRound(MulInt(totalMarks, 100)),
         maxMarks |-> maxMarks,
         percentage |-> Percentage(totalMarks, maxMarks)]

\* the checks of a submission without the one of quiz.isVisible
SubmitErrorIgnoringVisibility(db, quizId, responses) ==
    IF ~ValidSubmission(responses) THEN "ValidationFailed"
    ELSE IF ~QuizExists(db, quizId) THEN "QuizNotFound"
    ELSE IF \E i \in 1 .. Len(responses) :
               QuestionMapGet(db[quizId], responses[i].questionId) = 0
         THEN "QuestionNotFound"
    ELSE "ok"

\* what the route's validators and the handler throw, "ok" when nothing
SubmitError(db, quizId, responses) ==
    IF ~ValidSubmission(responses) THEN "ValidationFailed"
    ELSE IF ~QuizExists(db, quizId) THEN "QuizNotFound"
    ELSE IF ~db[quizId].isVisible THEN "QuizNotAvailable"
    ELSE IF \E i \in 1 .. Len(responses) :
               QuestionMapGet(db[quizId], responses[i].questionId) = 0
         THEN "QuestionNotFound"
    ELSE "ok"

\* a submission that keeps one attempt per quiz, writing the new attempt
\* over the stored one
SubmitOutcomeReplacingLast(db, stored, quizId, responses) ==
    LET err == SubmitError(db, quizId, responses)
        new == NewAttempt(quizId, db[quizId],
                          ScoredResponses(db[quizId], responses))
    IN  IF err # "ok" THEN [err |-> err, attempts |-> stored]
        ELSE IF \E a \in 1 .. Len(stored) : stored[a].quizId = quizId
             THEN [err |-> "ok",
                   attempts |->
                       [a \in 1 .. Len(stored) |->
                           IF stored[a].quizId = quizId THEN new
                           ELSE stored[a]]]
        ELSE [err |-> "ok", attempts |-> Append(stored, new)]

\* submitQuizAttempt from request to response: the attempt is created only
\* when nothing was thrown
SubmitOutcome(db, stored, quizId, responses) ==
    LET err == SubmitError(db, quizId, responses)
    IN  IF err # "ok" THEN [err |-> err, attempts |-> stored]
        ELSE [err |-> "ok",
              attempts |->
                  Append(stored,
                         NewAttempt(quizId, db[quizId],
                                    ScoredResponses(db[quizId], responses)))]

\* one stored quiz, no attempts
InitQuiz ==
    /\ teams = <<>>
    /\ req = [s \in Directory |-> Idle]
    /\ lastResult = "none"
    /\ \E quiz \in Quizzes : quizzes = <<quiz>>
    /\ attempts = <<>>
    /\ calls = [c \in Clients |-> Idle]

\* POST /api/v1/quizzes/:id/attempt
SubmitQuizAttempt(quizId, responses) ==
    LET done == SubmitOutcome(quizzes, attempts, quizId, responses)
    IN  /\ Len(attempts) < MaxAttempts
        /\ attempts' = done.attempts
        /\ lastResult' = done.err
        /\ UNCHANGED <<teams, req, quizzes, calls>>

\* one stored attempt per run
NextQuiz ==
    \E quizId \in QuizIds, responses \in Submissions :
        attempts = <<>> /\ SubmitQuizAttempt(quizId, responses)

SpecQuiz == InitQuiz /\ [][NextQuiz]_vars

-----------------------------------------------------------------------------
(* Properties of the quiz scoring, checked under SpecQuiz *)

AttemptIndexes == 1 .. Len(attempts)

ResponseIndexes(a) == 1 .. Len(attempts[a].responses)

\* the question of the quiz that a stored response names
QuestionOf(a, i) ==
    LET quiz == quizzes[attempts[a].quizId]
    IN  quiz.questions[CHOOSE j \in 1 .. Len(quiz.questions) :
            quiz.questions[j].id = attempts[a].responses[i].questionId]

\* everything submitQuizAttempt checks holds of the request, but for the
\* question ids its responses name
ReachesScoring(quizId, responses) ==
    /\ ValidSubmission(responses)
    /\ QuizExists(quizzes, quizId)
    /\ quizzes[quizId].isVisible

\* the ids of the questions of a quiz, and the ids a submission names
IdsOfQuestions(quiz) ==
    { quiz.questions[j].id : j \in 1 .. Len(quiz.questions) }

IdsNamed(responses) ==
    { responses[i].questionId : i \in 1 .. Len(responses) }

\* C15: a submission with a response, at whatever position, that names a
\* question id which is no question of the quiz is answered QuestionNotFound
\* (the InvalidReference error) and stores no attempt.
C15_UnknownQuestionRejectsAll ==
    /\ [](\A quizId \in QuizIds, responses \in Submissions :
             (/\ ReachesScoring(quizId, responses)
              /\ \E i \in 1 .. Len(responses) :
                    responses[i].questionId
                        \notin IdsOfQuestions(quizzes[quizId]))
             => /\ SubmitError(quizzes, quizId, responses) = "QuestionNotFound"
                /\ SubmitOutcome(quizzes, attempts, quizId, responses).attempts
                      = attempts)
    /\ [][lastResult' = "QuestionNotFound" => attempts' = attempts]_vars

\* a submission to a visible quiz of MaxQuestions questions was refused for
\* a question id, and no attempt is stored
C15_Witness ==
    /\ lastResult = "QuestionNotFound"
    /\ attempts = <<>>
    /\ quizzes # <<>>
    /\ quizzes[1].isVisible
    /\ Len(quizzes[1].questions) = MaxQuestions

\* C16: a stored response that selects a correct answer has the marks m of
\* its question when its response time is 0 and a tenth of m when its
\* response time is the time limit or more; one that selects an answer that
\* is not correct has 0 marks, at every response time.
C16_FullFloorAndZero ==
    \A a \in AttemptIndexes : \A i \in ResponseIndexes(a) :
        LET r == attempts[a].responses[i]
            q == QuestionOf(a, i)
            correct == q.answers[r.selectedAnswerIndex + 1]
        IN  /\ r.isCorrect = correct
            /\ (correct /\ r.responseTimeSeconds = 0)
                  => r.marksAwarded = 100 * q.marks
            /\ (correct /\ r.responseTimeSeconds >= q.timeLimitSeconds)
                  => r.marksAwarded = 10 * q.marks
            /\ ~correct => r.marksAwarded = 0

\* an attempt with a correct answer at time 0 and a correct answer at the
\* time limit or later
C16_Witness ==
    \E a \in AttemptIndexes : \E i \in ResponseIndexes(a), j \in ResponseIndexes(a) :
        /\ attempts[a].responses[i].isCorrect
        /\ attempts[a].responses[i].responseTimeSeconds = 0
        /\ attempts[a].responses[i].marksAwarded = 100 * QuestionOf(a, i).marks
        /\ attempts[a].responses[j].isCorrect
        /\ attempts[a].responses[j].responseTimeSeconds
              >= QuestionOf(a, j).timeLimitSeconds
        /\ attempts[a].responses[j].marksAwarded = 10 * QuestionOf(a, j).marks

\* max(0.1 * m, m * max(0, (t - r) / t)) in hundredths, rounded to the
\* nearest whole hundredth, a half upward, in exact arithmetic
ReferenceMarks(m, t, r) ==
    LET left == IF t - r > 0 THEN t - r ELSE 0
        timesT == IF 10 * m * t > 100 * m * left
                  THEN 10 * m * t ELSE 100 * m * left
    IN  (2 * timesT + t) \div (2 * t)

\* C17: the marks of a stored correct response to a question of marks m and
\* time limit t, answered at time r, are max(0.1 m, m max(0, (t - r) / t))
\* rounded to two decimal places.
C17_MarksMatchReference ==
    \A a \in AttemptIndexes : \A i \in ResponseIndexes(a) :
        attempts[a].responses[i].isCorrect
        => attempts[a].responses[i].marksAwarded
              = ReferenceMarks(QuestionOf(a, i).marks,
                               QuestionOf(a, i).timeLimitSeconds,
                               attempts[a].responses[i].responseTimeSeconds)

\* C18: the marks of every stored response are at least 0 and at most the
\* marks of the question it names.
C18_MarksWithinQuestionMarks ==
    \A a \in AttemptIndexes : \A i \in ResponseIndexes(a) :
        /\ attempts[a].responses[i].marksAwarded >= 0
        /\ attempts[a].responses[i].marksAwarded
              <= 100 * QuestionOf(a, i).marks

\* an attempt with a correct response that lost marks to its response time
C18_Witness ==
    \E a \in AttemptIndexes : \E i \in ResponseIndexes(a) :
        /\ attempts[a].responses[i].isCorrect
        /\ attempts[a].responses[i].marksAwarded > 0
        /\ attempts[a].responses[i].marksAwarded < 100 * QuestionOf(a, i).marks

\* the marks of all questions of a quiz together
RECURSIVE MarksOfQuestions(_, _)
MarksOfQuestions(quiz, n) ==
    IF n = 0 THEN 0
    ELSE MarksOfQuestions(quiz, n - 1) + quiz.questions[n].marks

\* the stored attempt answers every question of its quiz once, correctly
\* and at response time 0
FullAndInstant(a) ==
    /\ Len(attempts[a].responses) = Len(quizzes[attempts[a].quizId].questions)
    /\ IdsNamed(attempts[a].responses)
          = IdsOfQuestions(quizzes[attempts[a].quizId])
    /\ \A i \in ResponseIndexes(a) :
          /\ attempts[a].responses[i].isCorrect
          /\ attempts[a].responses[i].responseTimeSeconds = 0

\* C19: an attempt with one correct response at response time 0 for every
\* question of the quiz has totalMarks equal to maxMarks and percentage 100.
C19_FullInstantScoresAll ==
    \A a \in AttemptIndexes :
        FullAndInstant(a)
        => /\ attempts[a].totalMarks = 100 * attempts[a].maxMarks
           /\ attempts[a].maxMarks
                 = MarksOfQuestions(quizzes[attempts[a].quizId],
                                    Len(quizzes[attempts[a].quizId].questions))
           /\ attempts[a].percentage = 10000

\* such an attempt on a quiz of more than one question
C19_Witness ==
    \E a \in AttemptIndexes :
        FullAndInstant(a) /\ Len(attempts[a].responses) > 1

\* the marks of the first n responses of a stored attempt together
RECURSIVE MarksOfResponses(_, _)
MarksOfResponses(a, n) ==
    IF n = 0 THEN 0
    ELSE MarksOfResponses(a, n - 1) + attempts[a].responses[n].marksAwarded

\* C20: a submission that answers only some of the questions of the quiz is
\* accepted; a stored attempt has totalMarks the marks of its own responses
\* together, and maxMarks the marks of all questions of the quiz together,
\* answered or not.
C20_PartialSubmission ==
    /\ \A quizId \in QuizIds, responses \in Submissions :
          (/\ ReachesScoring(quizId, responses)
           /\ IdsNamed(responses) \subseteq IdsOfQuestions(quizzes[quizId])
           /\ IdsNamed(responses) # IdsOfQuestions(quizzes[quizId]))
          => SubmitError(quizzes, quizId, responses) = "ok"
    /\ \A a \in AttemptIndexes :
          /\ attempts[a].responses # <<>>
          /\ attempts[a].totalMarks
                = MarksOfResponses(a, Len(attempts[a].responses))
          /\ attempts[a].maxMarks
                = MarksOfQuestions(quizzes[attempts[a].quizId],
                                   Len(quizzes[attempts[a].quizId].questions))

\* a stored attempt that answers one question of a quiz of two with full
\* marks, its maxMarks counting both questions
C20_Witness ==
    \E a \in AttemptIndexes :
        /\ lastResult = "ok"
        /\ IdsNamed(attempts[a].responses)
              # IdsOfQuestions(quizzes[attempts[a].quizId])
        /\ attempts[a].totalMarks > 0
        /\ 100 * attempts[a].maxMarks > attempts[a].totalMarks
        /\ \A i \in ResponseIndexes(a) :
              attempts[a].responses[i].marksAwarded
                 = 100 * QuestionOf(a, i).marks

-----------------------------------------------------------------------------
(* Responding and listing invitations, checked under Spec *)

\* the teams after respondToInvitation(t, s, d) in the current state
RespondResult(s, t, d) == SaveOutcome(teams, t, RespondAnswer(s, t, d))

\* C25: a successful respondToInvitation(t, s, d) sets the entry of s in
\* team t to d and leaves every other entry of the team, the team's leader
\* and name, and every other team as they were; the team's status changes
\* only from a status other than 'active' to 'active', and only when every
\* entry is 'approved' after the response.
C25_RespondFrame ==
    \A s \in Directory, t \in TeamIndexes, d \in Decisions :
        LET done == RespondResult(s, t, d)
            before == teams[t]
            after == done.db[t]
            i == MemberIndex(before.members, s)
        IN  (RespondAnswer(s, t, d).err = "ok" /\ done.err = "ok") =>
                /\ Len(done.db) = Len(teams)
                /\ \A u \in TeamIndexes \ {t} : done.db[u] = teams[u]
                /\ after.leaderId = before.leaderId
                /\ after.name = before.name
                /\ Len(after.members) = Len(before.members)
                /\ after.members[i].studentId = s
                /\ after.members[i].status = d
                /\ \A j \in MemberIndexes(t) \ {i} :
                      after.members[j] = before.members[j]
                /\ after.status # before.status =>
                      /\ before.status # "active"
                      /\ after.status = "active"
                      /\ AllApproved(after.members)

\* a team of two invited students, one of whom has approved while the other
\* has not responded, and the team still 'pending'
C25_Witness ==
    \E t \in TeamIndexes :
        /\ InvitedOthers(t)
        /\ Len(teams[t].members) = 2
        /\ teams[t].status = "pending"
        /\ teams[t].members[1].status = "approved"
        /\ teams[t].members[2].status = "pending"

\* the teams in which the student's own member entry is 'pending'
OwnEntryPending(db, studentId) ==
    { t \in 1 .. Len(db) :
        \E i \in 1 .. Len(db[t].members) :
            /\ db[t].members[i].studentId = studentId
            /\ db[t].members[i].status = "pending" }

\* C26: getPendingInvitations for a student returns exactly the teams in
\* which the student's own member entry is 'pending' (stated for the teams
\* whose entries are students other than the leader).
C26_InvitationsAreOwnPending ==
    \A s \in Directory : \A t \in TeamIndexes :
        InvitedOthers(t) =>
            (t \in PendingInvitations(teams, s)
                <=> t \in OwnEntryPending(teams, s))

\* C30: in every reachable state a member entry has a joinedAt timestamp if
\* and only if its status is 'approved' (stated for the teams whose entries
\* are students other than the leader).
C30_JoinedAtIffApproved ==
    \A t \in TeamIndexes :
        InvitedOthers(t) =>
            \A i \in MemberIndexes(t) :
                teams[t].members[i].joinedAt = "set"
                    <=> teams[t].members[i].status = "approved"

\* the stored attempt names no question twice
NoQuestionTwice(a) ==
    Cardinality(IdsNamed(attempts[a].responses)) = Len(attempts[a].responses)

\* (totalMarks / maxMarks) * 100 rounded to two decimal places, in
\* hundredths, totalMarks being given in hundredths: the nearest whole
\* number, and at a half the next one upward or the even one
ReferencePercentages(totalMarks, maxMarks) ==
    LET lower == (100 * totalMarks) \div maxMarks
        rest == (100 * totalMarks) % maxMarks
    IN  IF 2 * rest < maxMarks THEN {lower}
        ELSE IF 2 * rest > maxMarks THEN {lower + 1}
        ELSE IF lower % 2 = 0 THEN {lower, lower + 1}
        ELSE {lower + 1}

\* C21: every stored attempt has totalMarks equal to the marks of its
\* responses together, rounded to two decimal places, and percentage equal
\* to (totalMarks / maxMarks) * 100 rounded to two decimal places when
\* maxMarks > 0 and 0 when maxMarks = 0 (stated for the attempts that name
\* no question twice).
C21_TotalsMatchReference ==
    \A a \in AttemptIndexes :
        NoQuestionTwice(a) =>
            /\ attempts[a].totalMarks
                  = MarksOfResponses(a, Len(attempts[a].responses))
            /\ attempts[a].maxMarks > 0 =>
                  attempts[a].percentage
                     \in ReferencePercentages(attempts[a].totalMarks,
                                              attempts[a].maxMarks)
            /\ attempts[a].maxMarks = 0 => attempts[a].percentage = 0

\* C27: every stored attempt has totalMarks at most maxMarks and a
\* percentage from 0 to 100, submissions that name a question more than once
\* included.
C27_TotalWithinMax ==
    \A a \in AttemptIndexes :
        /\ attempts[a].totalMarks <= 100 * attempts[a].maxMarks
        /\ attempts[a].percentage >= 0
        /\ attempts[a].percentage <= 10000

-----------------------------------------------------------------------------
(* Quiz administration and reads, one handler per step *)

\* the question lists of the lifecycle runs: questions of the bank with a
\* time limit of 20 seconds
LifecycleQuestions ==
    { qs \in SeqsUpTo(QuestionBank, MaxQuestions) :
        \A i \in 1 .. Len(qs) : qs[i].timeLimitSeconds = 20 }

\* the quiz documents of the lifecycle runs
LifecycleQuizzes ==
    { quiz \in Quizzes :
        \E qs \in LifecycleQuestions :
            quiz.questions = [i \in 1 .. Len(qs) |-> NewQuestion(i, qs[i])] }

\* the submissions of the lifecycle runs: first answers after 10 seconds
LifecycleSubmissions ==
    { responses \in Submissions :
        \A i \in 1 .. Len(responses) :
            /\ responses[i].selectedAnswerIndex = 0
            /\ responses[i].responseTimeSeconds = 10 }

\* the body of a PATCH /:id: questions and isVisible are optional; the
\* questions of the body carry the _id of their position
UpdateBodies ==
    { [setQuestions |-> sq, questions |-> qs,
       setIsVisible |-> sv, isVisible |-> v] :
        sq \in BOOLEAN, qs \in LifecycleQuestions,
        sv \in BOOLEAN, v \in BOOLEAN }

\* quizValidations.update on body.questions: an array of one or more
ValidUpdate(body) == body.setQuestions => Len(body.questions) >= 1

\* updateQuiz, lines 125-130: the allowed fields present in the body are
\* assigned to the document
UpdatedQuiz(quiz, body) ==
    [questions |->
         IF body.setQuestions
         THEN [i \in 1 .. Len(body.questions) |->
                  NewQuestion(i, body.questions[i])]
         ELSE quiz.questions,
     isVisible |-> IF body.setIsVisible THEN body.isVisible
                   ELSE quiz.isVisible]

\* the body of a PATCH /:id/visibility: isVisible is optional
ToggleBodies ==
    { [setIsVisible |-> sv, isVisible |-> v] : sv \in BOOLEAN, v \in BOOLEAN }

\* toggleVisibility, lines 181-186
ToggledQuiz(quiz, body) ==
    [quiz EXCEPT !.isVisible =
        IF body.setIsVisible THEN body.isVisible ELSE ~quiz.isVisible]

\* replace(db, id, doc): the collection with the document of that id saved
SaveQuiz(db, quizId, quiz) == [db EXCEPT ![quizId] = quiz]

\* QuizAttempt.deleteMany({ quizId })
DeleteMany(stored, quizId) ==
    SelectSeq(stored, LAMBDA attempt : attempt.quizId # quizId)

\* QuizAttempt.find({ quizId }): the attempts of the response, as a set
\* (page and sort order are left out)
FindAttempts(stored, quizId) ==
    { stored[a] : a \in { b \in 1 .. Len(stored) : stored[b].quizId = quizId } }

\* .select('-questions.answers.isCorrect'): every answer without its
\* correctness flag
HideCorrectness(quiz) ==
    [quiz EXCEPT !.questions =
        [i \in 1 .. Len(quiz.questions) |->
            [quiz.questions[i] EXCEPT !.answers =
                [j \in 1 .. Len(quiz.questions[i].answers) |-> "text"]]]]

\* the quizzes of the response of getAllQuizzes, as a set (search, page and
\* sort order are left out)
ListedQuizzes(db, includeHidden) ==
    { [id |-> i, quiz |-> HideCorrectness(db[i])] :
        i \in { k \in 1 .. Len(db) :
                  /\ QuizExists(db, k)
                  /\ includeHidden \/ db[k].isVisible } }

\* the response of getQuizById: the document as Quiz.findById returned it
ReadQuiz(db, quizId) ==
    IF QuizExists(db, quizId)
    THEN [err |-> "ok", quiz |-> db[quizId]]
    ELSE [err |-> "QuizNotFound", quiz |-> NoQuiz]

\* GET /api/v1/quizzes: the response carries
\* ListedQuizzes(quizzes, includeHidden)
GetAllQuizzes(includeHidden) ==
    /\ lastResult' = "QuizzesListed"
    /\ UNCHANGED <<teams, req, quizzes, attempts, calls>>

\* GET /api/v1/quizzes/:id
GetQuizById(quizId) ==
    /\ lastResult' = IF ReadQuiz(quizzes, quizId).err = "ok"
                     THEN "QuizRead" ELSE "QuizNotFound"
    /\ UNCHANGED <<teams, req, quizzes, attempts, calls>>

\* PATCH /api/v1/quizzes/:id
UpdateQuiz(quizId, body) ==
    /\ IF ~ValidUpdate(body)
       THEN lastResult' = "ValidationFailed" /\ quizzes' = quizzes
       ELSE IF ~QuizExists(quizzes, quizId)
       THEN lastResult' = "QuizNotFound" /\ quizzes' = quizzes
       ELSE /\ quizzes' = SaveQuiz(quizzes, quizId,
                                   UpdatedQuiz(quizzes[quizId], body))
            /\ lastResult' = "QuizUpdated"
    /\ UNCHANGED <<teams, req, attempts, calls>>

\* DELETE /api/v1/quizzes/:id
DeleteQuiz(quizId) ==
    /\ IF ~QuizExists(quizzes, quizId)
       THEN /\ lastResult' = "QuizNotFound"
            /\ UNCHANGED <<quizzes, attempts>>
       ELSE /\ quizzes' = SaveQuiz(quizzes, quizId, NoQuiz)
            /\ attempts' = DeleteMany(attempts, quizId)
            /\ lastResult' = "QuizDeleted"
    /\ UNCHANGED <<teams, req, calls>>

\* PATCH /api/v1/quizzes/:id/visibility
ToggleVisibility(quizId, body) ==
    /\ IF ~QuizExists(quizzes, quizId)
       THEN lastResult' = "QuizNotFound" /\ quizzes' = quizzes
       ELSE /\ quizzes' = SaveQuiz(quizzes, quizId,
                                   ToggledQuiz(quizzes[quizId], body))
            /\ lastResult' = "VisibilityToggled"
    /\ UNCHANGED <<teams, req, attempts, calls>>

\* GET /api/v1/quizzes/:id/attempts: the response carries
\* FindAttempts(attempts, quizId)
GetQuizAttempts(quizId) ==
    /\ lastResult' = IF QuizExists(quizzes, quizId)
                     THEN "AttemptsListed" ELSE "QuizNotFound"
    /\ UNCHANGED <<teams, req, quizzes, attempts, calls>>

\* one stored quiz of the lifecycle runs, no attempts
InitAdmin ==
    /\ teams = <<>>
    /\ req = [s \in Directory |-> Idle]
    /\ lastResult = "none"
    /\ \E quiz \in LifecycleQuizzes : quizzes = <<quiz>>
    /\ attempts = <<>>
    /\ calls = [c \in Clients |-> Idle]

NextAdmin ==
    \/ \E includeHidden \in BOOLEAN : GetAllQuizzes(includeHidden)
    \/ \E quizId \in QuizIds : GetQuizById(quizId)
    \/ \E quizId \in QuizIds, body \in UpdateBodies : UpdateQuiz(quizId, body)
    \/ \E quizId \in QuizIds : DeleteQuiz(quizId)
    \/ \E quizId \in QuizIds, body \in ToggleBodies :
          ToggleVisibility(quizId, body)
    \/ \E quizId \in QuizIds, responses \in LifecycleSubmissions :
          SubmitQuizAttempt(quizId, responses)
    \/ \E quizId \in QuizIds : GetQuizAttempts(quizId)

SpecAdmin == InitAdmin /\ [][NextAdmin]_vars

-----------------------------------------------------------------------------
(* Overlapping quiz requests: submitQuizAttempt and deleteQuiz in two steps, *)
(* one request per client                                                   *)

\* a submitQuizAttempt that has scored its responses and not yet created
\* the attempt
Scoring(quizId, responses, doc) ==
    [op |-> "submit", quizId |-> quizId, responses |-> responses, doc |-> doc]

\* a deleteQuiz that has deleted the quiz and not yet its attempts
Deleting(quizId) ==
    [op |-> "delete", quizId |-> quizId, responses |-> <<>>]

\* the request of the client has been answered
Answered(op, quizId, responses) ==
    [op |-> "done", was |-> op, quizId |-> quizId, responses |-> responses]

\* submitQuizAttempt, lines 207-271: findById, the checks and the scoring
SubmitBegin(c, quizId, responses) ==
    LET err == SubmitError(quizzes, quizId, responses)
    IN  /\ calls[c] = Idle
        /\ IF err # "ok"
           THEN /\ lastResult' = err
                /\ calls' = [calls EXCEPT
                                ![c] = Answered("submit", quizId, responses)]
           ELSE /\ lastResult' = lastResult
                /\ calls' = [calls EXCEPT ![c] =
                       Scoring(quizId, responses,
                               NewAttempt(quizId, quizzes[quizId],
                                          ScoredResponses(quizzes[quizId],
                                                          responses)))]
        /\ UNCHANGED <<teams, req, quizzes, attempts>>

\* a create that replaces the attempts stored so far
SubmitCreateOverwriting(c) ==
    /\ calls[c].op = "submit"
    /\ attempts' = <<calls[c].doc>>
    /\ lastResult' = "ok"
    /\ calls' = [calls EXCEPT
                    ![c] = Answered("submit", calls[c].quizId,
                                    calls[c].responses)]
    /\ UNCHANGED <<teams, req, quizzes>>

\* submitQuizAttempt, lines 274-290: QuizAttempt.create and the response
SubmitCreate(c) ==
    /\ calls[c].op = "submit"
    /\ attempts' = Append(attempts, calls[c].doc)
    /\ lastResult' = "ok"
    /\ calls' = [calls EXCEPT
                    ![c] = Answered("submit", calls[c].quizId,
                                    calls[c].responses)]
    /\ UNCHANGED <<teams, req, quizzes>>

\* deleteQuiz, lines 151-155: Quiz.findByIdAndDelete
DeleteBegin(c, quizId) ==
    /\ calls[c] = Idle
    /\ IF ~QuizExists(quizzes, quizId)
       THEN /\ lastResult' = "QuizNotFound"
            /\ quizzes' = quizzes
            /\ calls' = [calls EXCEPT
                            ![c] = Answered("delete", quizId, <<>>)]
       ELSE /\ lastResult' = lastResult
            /\ quizzes' = SaveQuiz(quizzes, quizId, NoQuiz)
            /\ calls' = [calls EXCEPT ![c] = Deleting(quizId)]
    /\ UNCHANGED <<teams, req, attempts>>

\* deleteQuiz, lines 157-164: QuizAttempt.deleteMany and the response
DeleteAttempts(c) ==
    /\ calls[c].op = "delete"
    /\ attempts' = DeleteMany(attempts, calls[c].quizId)
    /\ lastResult' = "QuizDeleted"
    /\ calls' = [calls EXCEPT
                    ![c] = Answered("delete", calls[c].quizId, <<>>)]
    /\ UNCHANGED <<teams, req, quizzes>>

NextQuizRace ==
    \/ \E c \in Clients, quizId \in QuizIds,
          responses \in LifecycleSubmissions :
          SubmitBegin(c, quizId, responses)
    \/ \E c \in Clients : SubmitCreate(c)
    \/ \E c \in Clients, quizId \in QuizIds : DeleteBegin(c, quizId)
    \/ \E c \in Clients : DeleteAttempts(c)

SpecQuizRace == InitAdmin /\ [][NextQuizRace]_vars

-----------------------------------------------------------------------------
(* Properties of the quiz lifecycle, checked under SpecAdmin *)

\* the correctness flags a question may carry: four answers, one or more of
\* them correct
AnswerFlags ==
    { flags \in [1 .. 4 -> BOOLEAN] : \E j \in 1 .. 4 : flags[j] }

\* the collection with other correctness flags on one question of one quiz
WithFlags(db, quizId, i, flags) ==
    [db EXCEPT ![quizId].questions[i].answers = flags]

\* C22: getAllQuizzes and getQuizById answer the same for two collections
\* that differ only in the answers marked isCorrect.
C22_ReadsHideCorrectness ==
    \A quizId \in QuizIds :
        QuizExists(quizzes, quizId) =>
            \A i \in 1 .. Len(quizzes[quizId].questions), flags \in AnswerFlags :
                /\ \A includeHidden \in BOOLEAN :
                      ListedQuizzes(WithFlags(quizzes, quizId, i, flags),
                                    includeHidden)
                         = ListedQuizzes(quizzes, includeHidden)
                /\ ReadQuiz(WithFlags(quizzes, quizId, i, flags), quizId)
                      = ReadQuiz(quizzes, quizId)

\* C23: no step changes a stored attempt: a step either keeps the stored
\* attempts as they are, with at most a new attempt behind them, or, on
\* deleteQuiz, takes the attempts of one quiz away and keeps the others as
\* they are.
C23_AttemptsNeverMutated ==
    [][\/ /\ Len(attempts') >= Len(attempts)
          /\ SubSeq(attempts', 1, Len(attempts)) = attempts
       \/ /\ lastResult' = "QuizDeleted"
          /\ \E quizId \in QuizIds :
                attempts' = DeleteMany(attempts, quizId)]_vars

\* two attempts are stored, the first of them scored before the quiz was
\* given other questions and hidden
C23_Witness ==
    /\ Len(attempts) = 2
    /\ QuizExists(quizzes, 1)
    /\ ~quizzes[1].isVisible
    /\ attempts[1].quizId = 1
    /\ attempts[1].maxMarks # MaxMarks(quizzes[1])
    /\ lastResult \in {"QuizUpdated", "VisibilityToggled", "AttemptsListed"}

\* C29: a submission to a quiz whose isVisible is false fails and stores no
\* attempt; every step that stores an attempt finds its quiz visible.
C29_AttemptsOnlyWhileVisible ==
    /\ [](\A quizId \in QuizIds, responses \in LifecycleSubmissions :
             (QuizExists(quizzes, quizId) /\ ~quizzes[quizId].isVisible) =>
                 /\ SubmitError(quizzes, quizId, responses)
                       \in {"ValidationFailed", "QuizNotAvailable"}
                 /\ SubmitOutcome(quizzes, attempts, quizId, responses).attempts
                       = attempts)
    /\ [][Len(attempts') > Len(attempts) =>
             /\ QuizExists(quizzes, attempts'[Len(attempts')].quizId)
             /\ quizzes[attempts'[Len(attempts')].quizId].isVisible]_vars
    /\ [][lastResult' = "QuizNotAvailable" => attempts' = attempts]_vars

\* a submission was refused on a quiz that was hidden after an attempt had
\* been stored
C29_Witness ==
    /\ lastResult = "QuizNotAvailable"
    /\ Len(attempts) = 1
    /\ QuizExists(quizzes, attempts[1].quizId)
    /\ ~quizzes[attempts[1].quizId].isVisible

-----------------------------------------------------------------------------
(* Properties of overlapping quiz requests, checked under SpecQuizRace *)

\* how often each attempt occurs among the stored ones
BagOfAttempts(stored) ==
    [x \in { stored[a] : a \in 1 .. Len(stored) } |->
        Cardinality({ a \in 1 .. Len(stored) : stored[a] = x })]

\* both clients have had their submitQuizAttempt answered
BothSubmitted ==
    \A c \in Clients : calls[c].op = "done" /\ calls[c].was = "submit"

\* the attempts stored by the submission of client c and then the one of
\* client d, each served from request to response
OneAfterTheOther(c, d) ==
    SubmitOutcome(quizzes,
                  SubmitOutcome(quizzes, <<>>, calls[c].quizId,
                                calls[c].responses).attempts,
                  calls[d].quizId, calls[d].responses).attempts

\* C24: when two overlapping submissions have both been answered, the
\* stored attempts are, but for their order, the ones the two submissions
\* store when served one after the other, in either order.
C24_SubmissionsCommute ==
    BothSubmitted =>
        /\ BagOfAttempts(attempts) = BagOfAttempts(OneAfterTheOther("c1", "c2"))
        /\ BagOfAttempts(attempts) = BagOfAttempts(OneAfterTheOther("c2", "c1"))

\* both submissions stored an attempt, the two attempts differ, and the one
\* of client c2 was created first
C24_Witness ==
    /\ BothSubmitted
    /\ Len(attempts) = 2
    /\ attempts[1] # attempts[2]
    /\ attempts[1].responses
          = ScoredResponses(quizzes[calls["c2"].quizId], calls["c2"].responses)
    /\ attempts[2].responses
          = ScoredResponses(quizzes[calls["c1"].quizId], calls["c1"].responses)

\* no request is between its two steps
NoCallInFlight == \A c \in Clients : calls[c].op \in {"idle", "done"}

\* C28: once the requests have been answered, every stored attempt names a
\* quiz that exists: deleteQuiz leaves no attempt of the deleted quiz, also
\* when a submitQuizAttempt for the same quiz overlaps it.
C28_NoOrphanAttempts ==
    NoCallInFlight =>
        \A a \in AttemptIndexes : QuizExists(quizzes, attempts[a].quizId)

=============================================================================
